---- MODULE Spec2Model ----
(***************************************************************************)
(* Model of askPDF's text-with-geometry core:                              *)
(*   backend/app/pdf_parser.py   extract_text_with_coordinates and helpers *)
(*   backend/app/pdf_service.py  PDFService._map_sentences_to_bboxes       *)
(*                                                                         *)
(* Strings are sequences of one-character strings.  Offsets into full_text *)
(* and char_map are kept 0-based as in the source; a sequence s is read at *)
(* offset i as s[i + 1].  Coordinates are integers.                        *)
(***************************************************************************)
EXTENDS Integers, Sequences, FiniteSets, TLC

VARIABLES
    \* extract_text_with_coordinates
    pc,             \* position in extract: "pages" (line 168), "blocks" (line 180), "done" (line 187),
                    \* "raised_page" / "raised_block": left by an exception of lines 169-179 / 181-185
    doc_open,       \* the fitz document handle is open (lines 165, 186)
    page_num,       \* 0-based index of the page being, or next to be, processed
    page,           \* metrics and detected regions of the current page (lines 170-175)
    text_blocks,    \* line 178
    sorted_blocks,  \* line 179
    block_i,        \* 1-based position of the for loop of line 180 in sorted_blocks
    full_text,      \* line 166; in align, the text argument
    char_map,       \* line 167; in align, the char_map argument
    log,            \* history: one record per block the loop of line 180 has visited
    \* PDFService._map_sentences_to_bboxes
    apc,            \* position in align: "idle", "loop" (line 111), "scan" (line 122), "returned" (line 147)
    call,           \* number of align calls started so far
    sentences,      \* the sentences argument, as far as the for loop has read it
    s,              \* the sentence of the current iteration
    s_text_clean,   \* line 113
    match_start,    \* line 118
    match_end,      \* line 119
    s_ptr,          \* line 120
    temp_idx,       \* line 121
    current_idx,    \* line 109
    scan_from,      \* history: current_idx when the current sentence's scan began
    restarts,       \* history: restarts (lines 134-136) in the current sentence's scan
    enriched_sentences, \* line 110
    first_result    \* history: the list the first align call returned

extract_vars == <<pc, doc_open, page_num, page, text_blocks, sorted_blocks, block_i, log>>
align_vars == <<apc, call, sentences, s, s_text_clean, match_start, match_end, s_ptr,
                temp_idx, current_idx, scan_from, restarts, enriched_sentences,
                first_result>>
vars == <<extract_vars, full_text, char_map, align_vars>>

-----------------------------------------------------------------------------
(* Bounds of the explored inputs *)

MaxPages == 2       \* pages per document
MaxBlocks == 2      \* blocks per document, over all pages
MaxText == 4        \* length of the text given to align
MaxSent == 2        \* sentences per align call
MaxRow == 3         \* blocks per document of crowded rows

-----------------------------------------------------------------------------
(* Python helpers *)

\* str.isspace() on the characters the inputs use
IsSpace(c) == c \in {" ", "\n", "\t", "\r"}

\* list[a:b] for 0 <= a
Slice(seq, a, b) ==
    LET hi == IF b < Len(seq) THEN b ELSE Len(seq)
    IN IF a >= hi THEN <<>> ELSE SubSeq(seq, a + 1, hi)

RECURSIVE LexLess(_, _)
\* tuple comparison a < b
LexLess(a, b) ==
    IF a = <<>> \/ b = <<>> THEN Len(a) < Len(b)
    ELSE IF a[1] # b[1] THEN a[1] < b[1]
    ELSE LexLess(Tail(a), Tail(b))

\* as SortedBy, but elements with equal keys come out in reverse source order
SortedByTiesReversed(seq, keys) ==
    LET n == Len(seq)
        before(j, i) == \/ LexLess(keys[j], keys[i])
                        \/ (keys[j] = keys[i] /\ j > i)
        rank(i) == Cardinality({j \in 1..n : before(j, i)}) + 1
    IN [p \in 1..n |-> seq[CHOOSE i \in 1..n : rank(i) = p]]

\* sorted(seq, key=...): ascending and stable; keys[i] is the key of seq[i]
SortedBy(seq, keys) ==
    LET n == Len(seq)
        before(j, i) == \/ LexLess(keys[j], keys[i])
                        \/ (keys[j] = keys[i] /\ j < i)
        rank(i) == Cardinality({j \in 1..n : before(j, i)}) + 1
    IN [p \in 1..n |-> seq[CHOOSE i \in 1..n : rank(i) = p]]

-----------------------------------------------------------------------------
(* pdf_parser.py *)

\* block_center in rect, for block_center = (c2[1] / 2, c2[2] / 2): PyMuPDF's
\* Rect.__contains__ on a point is x0 <= x < x1 and y0 <= y < y1.  The centre is
\* kept doubled so that a half-integer centre stays exact.
CenterInRect(c2, rect) ==
    /\ c2[1] >= 2 * rect[1] /\ c2[1] < 2 * rect[3]
    /\ c2[2] >= 2 * rect[2] /\ c2[2] < 2 * rect[4]

\* as _is_block_filtered, with <= and >= in the band test of line 41
IsBlockFilteredTouching(bbox, header_height, footer_y, table_bboxes, image_bboxes) ==
    \/ bbox[4] <= header_height \/ bbox[2] >= footer_y
    \/ LET block_center == <<bbox[1] + bbox[3], bbox[2] + bbox[4]>>
       IN \/ \E t \in 1..Len(table_bboxes) : CenterInRect(block_center, table_bboxes[t])
          \/ \E i \in 1..Len(image_bboxes) : CenterInRect(block_center, image_bboxes[i])

\* bbox and rect share a point of positive area
Overlaps(bbox, rect) ==
    bbox[1] < rect[3] /\ rect[1] < bbox[3] /\ bbox[2] < rect[4] /\ rect[2] < bbox[4]

\* as _is_block_filtered, with an overlap test in place of the centre test of lines 43-47
IsBlockFilteredOverlap(bbox, header_height, footer_y, table_bboxes, image_bboxes) ==
    \/ bbox[4] < header_height \/ bbox[2] > footer_y
    \/ \E t \in 1..Len(table_bboxes) : Overlaps(bbox, table_bboxes[t])
    \/ \E i \in 1..Len(image_bboxes) : Overlaps(bbox, image_bboxes[i])

\* bbox is <<x0, y0, x1, y1>>
_is_block_filtered(bbox, header_height, footer_y, table_bboxes, image_bboxes) ==
    IF bbox[4] < header_height \/ bbox[2] > footer_y THEN TRUE
    ELSE LET block_center == <<bbox[1] + bbox[3], bbox[2] + bbox[4]>>
         IN IF \E t \in 1..Len(table_bboxes) : CenterInRect(block_center, table_bboxes[t])
            THEN TRUE
            ELSE IF \E i \in 1..Len(image_bboxes) : CenterInRect(block_center, image_bboxes[i])
            THEN TRUE
            ELSE FALSE

\* as CharBox, with the 0-based page_num as the page
CharBoxZeroBased(char_info, pnum, page_height, page_width) ==
    LET c_bbox == char_info.bbox
        c_height == c_bbox[4] - c_bbox[2]
        c_y_bottom == page_height - c_bbox[2] - c_height
    IN [page |-> pnum, x |-> c_bbox[1], y |-> c_y_bottom,
        width |-> c_bbox[3] - c_bbox[1], height |-> c_height,
        page_height |-> page_height, page_width |-> page_width,
        is_space |-> FALSE, is_newline |-> FALSE]

\* the dict appended at lines 74-82 (pnum is the 0-based page_num); an absent is_space / is_newline key is FALSE
CharBox(char_info, pnum, page_height, page_width) ==
    LET c_bbox == char_info.bbox
        c_height == c_bbox[4] - c_bbox[2]
        c_y_bottom == page_height - c_bbox[2] - c_height
    IN [page |-> pnum + 1, x |-> c_bbox[1], y |-> c_y_bottom,
        width |-> c_bbox[3] - c_bbox[1], height |-> c_height,
        page_height |-> page_height, page_width |-> page_width,
        is_space |-> FALSE, is_newline |-> FALSE]

SpanKey(span) == <<span.bbox[1]>>

RECURSIVE SpanChars(_)
\* the chars of the spans, in the order the two loops of lines 64-66 visit them
SpanChars(spans) ==
    IF spans = <<>> THEN <<>> ELSE Head(spans).chars \o SpanChars(Tail(spans))

_process_line(line, pnum, page_height, page_width) ==
    LET spans == SortedBy(line.spans, [i \in 1..Len(line.spans) |-> SpanKey(line.spans[i])])
        kept == SelectSeq(SpanChars(spans), LAMBDA char_info : char_info.c # "")
    IN [line_text |-> [i \in 1..Len(kept) |-> kept[i].c],
        line_chars |-> [i \in 1..Len(kept) |->
                           CharBox(kept[i], pnum, page_height, page_width)]]

\* line_text.endswith((" ", "\n", "\t")), for a non-empty line_text
EndsWithSpaceNlTab(line_text) == line_text[Len(line_text)] \in {" ", "\n", "\t"}

\* the dict appended at lines 107-116
SpaceBox(last) ==
    [page |-> last.page, x |-> last.x + last.width, y |-> last.y,
     width |-> last.width, height |-> last.height,
     page_height |-> last.page_height, page_width |-> last.page_width,
     is_space |-> TRUE, is_newline |-> FALSE]

\* one iteration of the loop of line 98
ProcessBlockLine(acc, line, pnum, page_height, page_width) ==
    LET pl == _process_line(line, pnum, page_height, page_width)
        line_text == pl.line_text
        line_chars == pl.line_chars
    IN IF line_text = <<>> THEN acc
       ELSE IF EndsWithSpaceNlTab(line_text)
       THEN [block_text |-> acc.block_text \o line_text,
             block_chars |-> acc.block_chars \o line_chars]
       ELSE [block_text |-> acc.block_text \o line_text \o <<" ">>,
             block_chars |-> IF line_chars # <<>>
                             THEN acc.block_chars \o line_chars
                                      \o <<SpaceBox(line_chars[Len(line_chars)])>>
                             ELSE acc.block_chars \o line_chars]

RECURSIVE ProcessBlockLines(_, _, _, _, _)
ProcessBlockLines(acc, lines, pnum, page_height, page_width) ==
    IF lines = <<>> THEN acc
    ELSE ProcessBlockLines(
             ProcessBlockLine(acc, Head(lines), pnum, page_height, page_width),
             Tail(lines), pnum, page_height, page_width)

_process_block(block, pnum, page_height, page_width) ==
    ProcessBlockLines([block_text |-> <<>>, block_chars |-> <<>>], block.lines,
                      pnum, page_height, page_width)

\* block_text.strip() is non-empty
StripNonEmpty(block_text) == \E i \in 1..Len(block_text) : ~IsSpace(block_text[i])

RECURSIVE TrimTrailingFront(_)
\* as TrimTrailing, with block_chars.pop(0) for the pop() of line 134
TrimTrailingFront(b) ==
    IF b.block_text # <<>> /\ IsSpace(b.block_text[Len(b.block_text)])
    THEN TrimTrailingFront(
             [block_text |-> SubSeq(b.block_text, 1, Len(b.block_text) - 1),
              block_chars |-> IF b.block_chars # <<>>
                              THEN Tail(b.block_chars)
                              ELSE b.block_chars])
    ELSE b

RECURSIVE TrimTrailing(_)
\* the while loop of lines 131-134 on [block_text, block_chars]
TrimTrailing(b) ==
    IF b.block_text # <<>> /\ IsSpace(b.block_text[Len(b.block_text)])
    THEN TrimTrailing(
             [block_text |-> SubSeq(b.block_text, 1, Len(b.block_text) - 1),
              block_chars |-> IF b.block_chars # <<>>
                              THEN SubSeq(b.block_chars, 1, Len(b.block_chars) - 1)
                              ELSE b.block_chars])
    ELSE b

\* the dict appended at lines 142-151
NewlineBox(last) ==
    [page |-> last.page, x |-> last.x, y |-> last.y, width |-> 0,
     height |-> last.height, page_height |-> last.page_height,
     page_width |-> last.page_width, is_space |-> FALSE, is_newline |-> TRUE]

separator == <<"\n", "\n">>

RECURSIVE TrimText(_)
\* the while loop of lines 131-134 without lines 133-134
TrimText(block_text) ==
    IF block_text # <<>> /\ IsSpace(block_text[Len(block_text)])
    THEN TrimText(SubSeq(block_text, 1, Len(block_text) - 1))
    ELSE block_text

\* as _finalize_block, without the test of line 130
FinalizeBlockAlways(block_text, block_chars, text, cmap) ==
    LET b == TrimTrailing([block_text |-> block_text, block_chars |-> block_chars])
    IN [full_text |-> text \o b.block_text \o separator,
        char_map |-> IF b.block_chars # <<>>
                     THEN LET last == b.block_chars[Len(b.block_chars)]
                          IN cmap \o b.block_chars \o <<NewlineBox(last), NewlineBox(last)>>
                     ELSE cmap \o b.block_chars]

\* as _finalize_block, without the pop of lines 133-134
FinalizeBlockNoPop(block_text, block_chars, text, cmap) ==
    IF StripNonEmpty(block_text)
    THEN [full_text |-> text \o TrimText(block_text) \o separator,
          char_map |-> IF block_chars # <<>>
                       THEN LET last == block_chars[Len(block_chars)]
                            IN cmap \o block_chars \o <<NewlineBox(last), NewlineBox(last)>>
                       ELSE cmap \o block_chars]
    ELSE [full_text |-> text, char_map |-> cmap]

\* as _finalize_block, with a separator of one newline and range(1) at line 141
FinalizeBlockOneNewline(block_text, block_chars, text, cmap) ==
    IF StripNonEmpty(block_text)
    THEN LET b == TrimTrailing([block_text |-> block_text, block_chars |-> block_chars])
         IN [full_text |-> text \o b.block_text \o <<"\n">>,
             char_map |-> IF b.block_chars # <<>>
                          THEN cmap \o b.block_chars
                                   \o <<NewlineBox(b.block_chars[Len(b.block_chars)])>>
                          ELSE cmap \o b.block_chars]
    ELSE [full_text |-> text, char_map |-> cmap]

_finalize_block(block_text, block_chars, text, cmap) ==
    IF StripNonEmpty(block_text)
    THEN LET b == TrimTrailing([block_text |-> block_text, block_chars |-> block_chars])
         IN [full_text |-> text \o b.block_text \o separator,
             char_map |-> IF b.block_chars # <<>>
                          THEN LET last == b.block_chars[Len(b.block_chars)]
                               IN cmap \o b.block_chars
                                       \o <<NewlineBox(last), NewlineBox(last)>>
                          ELSE cmap \o b.block_chars]
    ELSE [full_text |-> text, char_map |-> cmap]

\* as the key of line 179, with the top rounded to the nearest row instead of floored
BlockKeyRounded(b) == <<(b.bbox[2] + 5) \div 10, b.bbox[1]>>

\* as the key of line 179, without its second component
BlockKeyRowOnly(b) == <<b.bbox[2] \div 10>>

\* the key of line 179: (b["bbox"][1] // 10, b["bbox"][0])
BlockKey(b) == <<b.bbox[2] \div 10, b.bbox[1]>>

-----------------------------------------------------------------------------
(* The documents given to extract: what fitz reports for them *)

\* a glyph of the rawdict: a character value and its rectangle <<x0, y0, x1, y1>>
Glyph(c, x0, y0) == [c |-> c, bbox |-> <<x0, y0, x0 + 5, y0 + 10>>]

\* a span holding the characters cs from x0 on, on the line whose top is y0
Span(cs, x0, y0) ==
    [bbox |-> <<x0, y0, x0 + 5 * Len(cs), y0 + 10>>,
     chars |-> [i \in 1..Len(cs) |-> Glyph(cs[i], x0 + 5 * (i - 1), y0)]]

\* a text block; ls lists its lines, each the list of its spans in source order,
\* a span given as <<dx, cs>>: its offset from the block's left edge and its characters
TextBlock(bbox, ls) ==
    [type |-> 0, bbox |-> bbox,
     lines |-> [l \in 1..Len(ls) |->
                  [spans |-> [k \in 1..Len(ls[l]) |->
                                Span(ls[l][k][2], bbox[1] + ls[l][k][1],
                                     bbox[2] + 10 * (l - 1))]]]]

ImageBlock(bbox) == [type |-> 1, bbox |-> bbox, lines |-> <<>>]

BodyRect == <<10, 22, 50, 42>>
TableRect == <<40, 40, 60, 60>>
ImageRect == <<70, 100, 90, 120>>

\* blocks that differ in their text
ContentBlocks ==
    { TextBlock(BodyRect, << << <<0, <<"a">>>> >> >>),
      TextBlock(BodyRect, << << <<0, <<"a">>>> >>, << <<0, <<"b">>>> >> >>),
      TextBlock(BodyRect, << << <<0, <<" ">>>> >> >>),
      TextBlock(BodyRect, << << <<0, <<"\n", "b">>>> >> >>),
      TextBlock(BodyRect, << << <<0, <<"a", "\r">>>> >>, <<>> >>),
      TextBlock(BodyRect, << << <<10, <<"b", "">>>>, <<0, <<"a", " ">>>> >> >>),
      TextBlock(BodyRect, <<>>),
      ImageBlock(BodyRect) }

\* blocks that differ in their rectangle
LayoutBlocks ==
    { TextBlock(<<10, 0, 50, 4>>, << << <<0, <<"h">>>> >> >>),
      TextBlock(<<10, 0, 50, 5>>, << << <<0, <<"h">>>> >> >>),
      TextBlock(<<10, 96, 50, 100>>, << << <<0, <<"f">>>> >> >>),
      TextBlock(<<10, 95, 50, 100>>, << << <<0, <<"f">>>> >> >>),
      TextBlock(<<30, 30, 80, 60>>, << << <<0, <<"t">>>> >> >>),
      TextBlock(<<50, 50, 90, 90>>, << << <<0, <<"c">>>> >> >>),
      TextBlock(<<50, 30, 70, 50>>, << << <<0, <<"e">>>> >> >>),
      TextBlock(<<75, 105, 85, 115>>, << << <<0, <<"i">>>> >> >>),
      TextBlock(<<50, 18, 90, 38>>, << << <<0, <<"r">>>> >> >>) }

BlockCatalog == ContentBlocks \cup LayoutBlocks

\* page.rect and what find_tables / get_image_rects detect on the page
PageCatalog ==
    { [height |-> 100, width |-> 100, tables |-> <<>>, images |-> <<>>],
      [height |-> 200, width |-> 100, tables |-> <<TableRect>>, images |-> <<ImageRect>>] }

\* pages of crowded rows: blocks that share a row bucket or a whole key, some of them
\* with their centre in the table of the page
RowBlocks ==
    { TextBlock(<<30, 30, 80, 60>>, << << <<0, <<"t">>>> >> >>),
      TextBlock(<<30, 32, 40, 42>>, << << <<0, <<"u">>>> >> >>),
      TextBlock(<<50, 30, 70, 50>>, << << <<0, <<"e">>>> >> >>),
      TextBlock(<<50, 18, 90, 38>>, << << <<0, <<"r">>>> >> >>),
      TextBlock(BodyRect, << << <<0, <<"a">>>> >> >>),
      TextBlock(BodyRect, << << <<0, <<"a">>>> >>, << <<0, <<"b">>>> >> >>) }

RowPages ==
    { [height |-> 200, width |-> 100, tables |-> <<TableRect>>, images |-> <<ImageRect>>] }

NoPage ==
    [page_height |-> 0, page_width |-> 0, table_bboxes |-> <<>>, image_bboxes |-> <<>>,
     header_height |-> 0, footer_y |-> 0]

-----------------------------------------------------------------------------
(* extract_text_with_coordinates *)

\* page_height * 0.05 and page_height * 0.95; exact for the page heights used
HeaderHeight(page_height) == (page_height * 5) \div 100
FooterY(page_height) == (page_height * 95) \div 100

\* lines 169-179: read the next page; p is the page, blocks its rawdict blocks, drawn
\* from the given catalogs, at most limit blocks
ReadPage(page_catalog, block_catalog, limit) ==
    /\ pc = "pages" /\ doc_open /\ page_num < MaxPages
    /\ \E p \in page_catalog, n \in 0..limit :
         \E blocks \in [1..n -> block_catalog] :
            LET tb == SelectSeq(blocks, LAMBDA b : b.type = 0)
                sorted == SortedBy(tb, [i \in 1..Len(tb) |-> BlockKey(tb[i])])
            IN /\ text_blocks' = tb
               /\ page' = [page_height |-> p.height, page_width |-> p.width,
                           table_bboxes |-> p.tables, image_bboxes |-> p.images,
                           header_height |-> HeaderHeight(p.height),
                           footer_y |-> FooterY(p.height)]
               /\ sorted_blocks' = sorted
               /\ block_i' = 1
               /\ IF sorted = <<>>
                  THEN pc' = "pages" /\ page_num' = page_num + 1
                  ELSE pc' = "blocks" /\ page_num' = page_num
    /\ UNCHANGED <<doc_open, full_text, char_map, log, align_vars>>

NextPage == ReadPage(PageCatalog, BlockCatalog, MaxBlocks - Len(log))

\* the next page of a document of crowded rows
NextRowPage == ReadPage(RowPages, RowBlocks, MaxRow - Len(log))

\* lines 180-185: one iteration over sorted_blocks
StepBlock ==
    /\ pc = "blocks" /\ doc_open
    /\ LET block == sorted_blocks[block_i]
           bbox == block.bbox
           filtered == _is_block_filtered(bbox, page.header_height, page.footer_y,
                                          page.table_bboxes, page.image_bboxes)
           pb == _process_block(block, page_num, page.page_height, page.page_width)
           fin == _finalize_block(pb.block_text, pb.block_chars, full_text, char_map)
           out == IF filtered THEN [full_text |-> full_text, char_map |-> char_map] ELSE fin
       IN /\ full_text' = out.full_text
          /\ char_map' = out.char_map
          /\ log' = Append(log, [block |-> block, page_num |-> page_num, page |-> page,
                                 filtered |-> filtered,
                                 block_text |-> IF filtered THEN <<>> ELSE pb.block_text,
                                 block_chars |-> IF filtered THEN <<>> ELSE pb.block_chars,
                                 start |-> Len(full_text), stop |-> Len(out.full_text),
                                 cstart |-> Len(char_map), cstop |-> Len(out.char_map)])
    /\ IF block_i = Len(sorted_blocks)
       THEN pc' = "pages" /\ page_num' = page_num + 1 /\ block_i' = 1
       ELSE pc' = "blocks" /\ page_num' = page_num /\ block_i' = block_i + 1
    /\ UNCHANGED <<doc_open, page, text_blocks, sorted_blocks, align_vars>>

\* lines 172-176: find_tables, get_images, get_image_rects or get_text raises on the
\* page; nothing catches it and the call is left with the exception
PageFails ==
    /\ pc = "pages" /\ doc_open /\ page_num < MaxPages
    /\ pc' = "raised_page"
    /\ UNCHANGED <<doc_open, page_num, page, text_blocks, sorted_blocks, block_i,
                   full_text, char_map, log, align_vars>>

\* lines 181-185: processing the block raises; nothing catches it and the call is
\* left with the exception
BlockFails ==
    /\ pc = "blocks" /\ doc_open
    /\ pc' = "raised_block"
    /\ UNCHANGED <<doc_open, page_num, page, text_blocks, sorted_blocks, block_i,
                   full_text, char_map, log, align_vars>>

\* lines 186-187: the document had page_num pages
Close ==
    /\ pc = "pages" /\ doc_open
    /\ doc_open' = FALSE
    /\ pc' = "done"
    /\ UNCHANGED <<page_num, page, text_blocks, sorted_blocks, block_i, full_text,
                   char_map, log, align_vars>>

AlignIdle ==
    /\ apc = "idle" /\ call = 0 /\ sentences = <<>> /\ s = [id |-> 0, text |-> <<>>]
    /\ s_text_clean = <<>> /\ match_start = -1 /\ match_end = -1 /\ s_ptr = 0
    /\ temp_idx = 0 /\ current_idx = 0 /\ scan_from = 0 /\ restarts = 0
    /\ enriched_sentences = <<>> /\ first_result = <<>>

\* lines 165-167
InitExtract ==
    /\ pc = "pages" /\ doc_open = TRUE /\ page_num = 0 /\ page = NoPage
    /\ text_blocks = <<>> /\ sorted_blocks = <<>> /\ block_i = 1 /\ log = <<>>
    /\ full_text = <<>> /\ char_map = <<>>
    /\ AlignIdle

NextExtract == NextPage \/ StepBlock \/ PageFails \/ BlockFails \/ Close

SpecExtract == InitExtract /\ [][NextExtract]_vars

\* extract on documents whose pages hold up to MaxRow blocks in a few rows
NextRows == NextRowPage \/ StepBlock \/ PageFails \/ BlockFails \/ Close

SpecRows == InitExtract /\ [][NextRows]_vars

-----------------------------------------------------------------------------
(* PDFService._map_sentences_to_bboxes *)

\* the non-whitespace characters of seq: "".join(seq.split())
NonWs(seq) == SelectSeq(seq, LAMBDA c : ~IsSpace(c))

\* as StartCursor, for a cursor kept between calls
StartCursorKept(previous) == previous

\* line 109; previous is the value the variable held before the call
StartCursor(previous) == 0

\* as ScanIteration, but a restart resumes at match_start itself
ScanIterationRestartSame(text, key, st) ==
    LET char == text[st.temp_idx + 1]
    IN IF IsSpace(char) THEN [st EXCEPT !.temp_idx = @ + 1]
       ELSE IF char = key[st.s_ptr + 1]
       THEN [st EXCEPT !.match_start = IF @ = -1 THEN st.temp_idx ELSE @,
                       !.s_ptr = @ + 1, !.temp_idx = @ + 1]
       ELSE IF st.match_start # -1
       THEN [st EXCEPT !.temp_idx = st.match_start, !.match_start = -1,
                       !.s_ptr = 0, !.restarts = @ + 1]
       ELSE [st EXCEPT !.temp_idx = @ + 1]

\* as ScanIteration, resuming after a mismatch at the failure point
ScanIterationNoRestart(text, key, st) ==
    LET char == text[st.temp_idx + 1]
    IN IF IsSpace(char) THEN [st EXCEPT !.temp_idx = @ + 1]
       ELSE IF char = key[st.s_ptr + 1]
       THEN [st EXCEPT !.match_start = IF @ = -1 THEN st.temp_idx ELSE @,
                       !.s_ptr = @ + 1, !.temp_idx = @ + 1]
       ELSE IF st.match_start # -1
       THEN [st EXCEPT !.temp_idx = @ + 1, !.match_start = -1, !.s_ptr = 0,
                       !.restarts = @ + 1]
       ELSE [st EXCEPT !.temp_idx = @ + 1]

\* as ScanIteration, but a mismatch after a partial match only resets the clean-key
\* pointer and reads on: match_start is kept and nothing is read again
ScanIterationKeepStart(text, key, st) ==
    LET char == text[st.temp_idx + 1]
    IN IF IsSpace(char) THEN [st EXCEPT !.temp_idx = @ + 1]
       ELSE IF char = key[st.s_ptr + 1]
       THEN [st EXCEPT !.match_start = IF @ = -1 THEN st.temp_idx ELSE @,
                       !.s_ptr = @ + 1, !.temp_idx = @ + 1]
       ELSE IF st.match_start # -1
       THEN [st EXCEPT !.temp_idx = @ + 1, !.s_ptr = 0, !.restarts = @ + 1]
       ELSE [st EXCEPT !.temp_idx = @ + 1]

\* lines 123-138: one iteration of the while loop on
\* st = [temp_idx, s_ptr, match_start, restarts]
ScanIteration(text, key, st) ==
    LET char == text[st.temp_idx + 1]
    IN IF IsSpace(char) THEN [st EXCEPT !.temp_idx = @ + 1]
       ELSE IF char = key[st.s_ptr + 1]
       THEN [st EXCEPT !.match_start = IF @ = -1 THEN st.temp_idx ELSE @,
                       !.s_ptr = @ + 1, !.temp_idx = @ + 1]
       ELSE IF st.match_start # -1
       THEN [st EXCEPT !.temp_idx = st.match_start + 1, !.match_start = -1,
                       !.s_ptr = 0, !.restarts = @ + 1]
       ELSE [st EXCEPT !.temp_idx = @ + 1]

\* the test of line 139
FoundFull(mstart, ptr, key) == mstart # -1 /\ ptr = Len(key)

\* as MatchedBoxes, with the slice ending one entry early
MatchedBoxesShort(cmap, mstart, mend) == Slice(cmap, mstart, mend - 1)

\* line 141
MatchedBoxes(cmap, mstart, mend) == Slice(cmap, mstart, mend)

\* as CursorAfter, never advancing the cursor
CursorAfterStuck(cur, found, temp) == cur

\* as CursorAfter, advancing the cursor to where a failed scan stopped
CursorAfterAlways(cur, found, temp) == temp

\* as CursorAfter, with the cursor one offset beyond the end of the match
CursorAfterSkip(cur, found, temp) == IF found THEN temp + 1 ELSE cur

\* lines 140-145: current_idx after a scan that stopped at temp
CursorAfter(cur, found, temp) == IF found THEN temp ELSE cur

\* s["bboxes"] = bboxes
WithBboxes(sentence, bboxes) ==
    [id |-> sentence.id, text |-> sentence.text, bboxes |-> bboxes]

\* the texts of the sentences given to align
SentenceTexts ==
    { <<"a">>, <<"a", "b">>, <<"b", "a">>, <<"a", " ", "b">>, <<"a", "a">>, <<" ">> }

\* the element the for loop of line 111 reads next: in the first call any sentence
\* the segmenter may have produced, in the second the next element of the list the
\* first call returned
NextSentences ==
    IF call = 1
    THEN IF Len(enriched_sentences) < MaxSent
         THEN {[id |-> Len(enriched_sentences), text |-> t] : t \in SentenceTexts}
         ELSE {}
    ELSE IF Len(enriched_sentences) < Len(sentences)
         THEN {sentences[Len(enriched_sentences) + 1]}
         ELSE {}

\* lines 109-110: align is called, the second time with the list the first returned
CallAlign ==
    /\ pc = "done"
    /\ \/ apc = "idle" /\ call = 0 /\ sentences' = <<>>
       \/ apc = "returned" /\ call = 1 /\ sentences' = first_result
    /\ call' = call + 1
    /\ current_idx' = StartCursor(current_idx)
    /\ enriched_sentences' = <<>>
    /\ apc' = "loop"
    /\ UNCHANGED <<s, s_text_clean, match_start, match_end, s_ptr, temp_idx, scan_from,
                   restarts, first_result, extract_vars, full_text, char_map>>

\* lines 111-121: the for loop reads a sentence
BeginSentence ==
    /\ apc = "loop"
    /\ \E sentence \in NextSentences :
         LET clean == NonWs(sentence.text)
         IN /\ IF call = 1 THEN sentences' = Append(sentences, sentence)
                           ELSE sentences' = sentences
            /\ scan_from' = current_idx
            /\ restarts' = 0
            /\ IF clean = <<>>
               THEN /\ s' = WithBboxes(sentence, <<>>)
                    /\ enriched_sentences' = Append(enriched_sentences, s')
                    /\ s_text_clean' = clean
                    /\ apc' = "loop"
                    /\ UNCHANGED <<match_start, match_end, s_ptr, temp_idx>>
               ELSE /\ s' = sentence
                    /\ s_text_clean' = clean
                    /\ match_start' = -1 /\ match_end' = -1 /\ s_ptr' = 0
                    /\ temp_idx' = current_idx
                    /\ apc' = "scan"
                    /\ UNCHANGED enriched_sentences
    /\ UNCHANGED <<call, current_idx, first_result, extract_vars, full_text, char_map>>

\* lines 122-138: one iteration of the while loop
ScanStep ==
    /\ apc = "scan"
    /\ temp_idx < Len(full_text) /\ s_ptr < Len(s_text_clean)
    /\ LET st == ScanIteration(full_text, s_text_clean,
                               [temp_idx |-> temp_idx, s_ptr |-> s_ptr,
                                match_start |-> match_start, restarts |-> restarts])
       IN /\ temp_idx' = st.temp_idx /\ s_ptr' = st.s_ptr
          /\ match_start' = st.match_start /\ restarts' = st.restarts
    /\ UNCHANGED <<apc, call, sentences, s, s_text_clean, match_end, current_idx,
                   scan_from, enriched_sentences, first_result, extract_vars,
                   full_text, char_map>>

\* lines 139-146: the while loop has ended
EndSentence ==
    /\ apc = "scan"
    /\ ~(temp_idx < Len(full_text) /\ s_ptr < Len(s_text_clean))
    /\ LET found == FoundFull(match_start, s_ptr, s_text_clean)
       IN /\ match_end' = IF found THEN temp_idx ELSE match_end
          /\ s' = WithBboxes(s, IF found THEN MatchedBoxes(char_map, match_start, temp_idx)
                                         ELSE <<>>)
          /\ current_idx' = CursorAfter(current_idx, found, temp_idx)
    /\ enriched_sentences' = Append(enriched_sentences, s')
    /\ apc' = "loop"
    /\ UNCHANGED <<call, sentences, s_text_clean, match_start, s_ptr, temp_idx, scan_from,
                   restarts, first_result, extract_vars, full_text, char_map>>

\* line 147: the sentences are exhausted
Return ==
    /\ apc = "loop"
    /\ call = 2 => Len(enriched_sentences) = Len(sentences)
    /\ apc' = "returned"
    /\ first_result' = IF call = 1 THEN enriched_sentences ELSE first_result
    /\ UNCHANGED <<call, sentences, s, s_text_clean, match_start, match_end, s_ptr,
                   temp_idx, current_idx, scan_from, restarts, enriched_sentences,
                   extract_vars, full_text, char_map>>

-----------------------------------------------------------------------------
(* main.py: the loop written inline in upload_pdf *)

\* as InlineIteration, without the whitespace test of lines 75-77
InlineIterationNoSkip(text, key, st) ==
    LET char == text[st.temp_idx + 1]
    IN IF char = key[st.s_ptr + 1]
       THEN [st EXCEPT !.match_start = IF @ = -1 THEN st.temp_idx ELSE @,
                       !.s_ptr = @ + 1, !.temp_idx = @ + 1]
       ELSE IF st.match_start # -1
       THEN [st EXCEPT !.temp_idx = st.match_start + 1, !.match_start = -1, !.s_ptr = 0]
       ELSE [st EXCEPT !.temp_idx = @ + 1]

\* main.py lines 72-95: one iteration of the while loop on
\* st = [temp_idx, s_ptr, match_start]
InlineIteration(text, key, st) ==
    LET char == text[st.temp_idx + 1]
    IN IF IsSpace(char) THEN [st EXCEPT !.temp_idx = @ + 1]
       ELSE IF char = key[st.s_ptr + 1]
       THEN [st EXCEPT !.match_start = IF @ = -1 THEN st.temp_idx ELSE @,
                       !.s_ptr = @ + 1, !.temp_idx = @ + 1]
       ELSE IF st.match_start # -1
       THEN [st EXCEPT !.temp_idx = st.match_start + 1, !.match_start = -1, !.s_ptr = 0]
       ELSE [st EXCEPT !.temp_idx = @ + 1]

RECURSIVE InlineWhile(_, _, _)
\* main.py lines 71-95: the while loop
InlineWhile(text, key, st) ==
    IF st.temp_idx < Len(text) /\ st.s_ptr < Len(key)
    THEN InlineWhile(text, key, InlineIteration(text, key, st))
    ELSE st

\* main.py lines 53-109: the body of the for loop on
\* acc = [current_idx, enriched_sentences]
InlineBody(text, cmap, acc, sentence) ==
    LET clean == NonWs(sentence.text)
    IN IF clean = <<>>
       THEN [acc EXCEPT !.enriched_sentences = Append(@, WithBboxes(sentence, <<>>))]
       ELSE LET st == InlineWhile(text, clean,
                                  [temp_idx |-> acc.current_idx, s_ptr |-> 0,
                                   match_start |-> -1])
            IN IF st.match_start # -1 /\ st.s_ptr = Len(clean)
               THEN [current_idx |-> st.temp_idx,
                     enriched_sentences |->
                         Append(acc.enriched_sentences,
                                WithBboxes(sentence, Slice(cmap, st.match_start, st.temp_idx)))]
               ELSE [acc EXCEPT !.enriched_sentences = Append(@, WithBboxes(sentence, <<>>))]

RECURSIVE InlineFor(_, _, _, _)
\* main.py line 52: the for loop over the sentences still to read
InlineFor(todo, text, cmap, acc) ==
    IF todo = <<>> THEN acc
    ELSE InlineFor(Tail(todo), text, cmap, InlineBody(text, cmap, acc, Head(todo)))

\* main.py lines 49-109
upload_pdf_align(given, text, cmap) ==
    InlineFor(given, text, cmap, [current_idx |-> 0, enriched_sentences |-> <<>>])

-----------------------------------------------------------------------------

\* the characters of the texts given to align
TextAlphabet == {"a", "b", " "}

Texts == UNION {[1..n -> TextAlphabet] : n \in 0..MaxText}

\* a geometry map as long as the text, as extract pairs them: entry i at x = 5 * i
MapOf(text) ==
    [i \in 1..Len(text) |->
        [page |-> 1, x |-> 5 * (i - 1), y |-> 80, width |-> 5, height |-> 10,
         page_height |-> 100, page_width |-> 100,
         is_space |-> FALSE, is_newline |-> FALSE]]

\* process_upload, lines 78-81: extract has returned a text and its map
InitAlign ==
    /\ pc = "done" /\ doc_open = FALSE /\ page_num = 0 /\ page = NoPage
    /\ text_blocks = <<>> /\ sorted_blocks = <<>> /\ block_i = 1 /\ log = <<>>
    /\ full_text \in Texts
    /\ char_map = MapOf(full_text)
    /\ AlignIdle

NextAlign == CallAlign \/ BeginSentence \/ ScanStep \/ EndSentence \/ Return

SpecAlign == InitAlign /\ [][NextAlign]_vars

\* longer texts in which a sentence can be read, skipping whitespace, before the place
\* it was cut from
PieceTexts ==
    { <<"a", " ", "b", "a", "b">>,
      <<"a", "b", "a", " ", "b", "a">>,
      <<"a", "\n", "\n", "a", "b">>,
      <<"b", "a", "a", "b", " ", "a">> }

\* process_upload, lines 78-81, on the texts of Texts and on the longer ones
InitPieces ==
    /\ pc = "done" /\ doc_open = FALSE /\ page_num = 0 /\ page = NoPage
    /\ text_blocks = <<>> /\ sorted_blocks = <<>> /\ block_i = 1 /\ log = <<>>
    /\ full_text \in Texts \cup PieceTexts
    /\ char_map = MapOf(full_text)
    /\ AlignIdle

\* line 81: process_upload calls align once
CallOnce == call = 0 /\ CallAlign

NextAlignOnce == CallOnce \/ BeginSentence \/ ScanStep \/ EndSentence \/ Return

\* one call of align on the texts of InitPieces
SpecPieces == InitPieces /\ [][NextAlignOnce]_vars

\* one call of align as the interpreter runs it: a step that can be taken is taken
SpecAlignFair == InitAlign /\ [][NextAlignOnce]_vars /\ WF_vars(NextAlignOnce)

-----------------------------------------------------------------------------
(* Properties of extract *)

RECURSIVE LineGlyphs(_)
LineGlyphs(lines) ==
    IF lines = <<>> THEN <<>> ELSE SpanChars(Head(lines).spans) \o LineGlyphs(Tail(lines))

\* the glyphs of a block that carry a character
BlockGlyphs(block) == SelectSeq(LineGlyphs(block.lines), LAMBDA g : g.c # "")

\* the visited blocks that put something into full_text
Contributing == {k \in 1..Len(log) : log[k].stop > log[k].start}

\* C1: the text and the geometry map have the same length, in the result and after
\* every block the loop has finalized or skipped
LengthInvariant == Len(full_text) = Len(char_map)

\* a visited block lost a real whitespace glyph to the trim of _finalize_block
TrimmedGlyph(k) ==
    /\ k \in Contributing
    /\ \E i \in 1..Len(BlockGlyphs(log[k].block)) :
          IsSpace(BlockGlyphs(log[k].block)[i].c)
    /\ \A i \in (log[k].start + 1)..(log[k].stop - 2) : ~IsSpace(full_text[i])

LengthWitness ==
    /\ pc = "done" /\ full_text # <<>>
    /\ \E k \in 1..Len(log) : TrimmedGlyph(k)
    /\ \E k \in 1..Len(log) :
          /\ ~log[k].filtered /\ log[k].stop = log[k].start
          /\ BlockGlyphs(log[k].block) # <<>>

\* entry e is the box of glyph g of a block of the page with index pnum and height h
IsBoxOf(e, g, pnum, h) ==
    /\ e.page = pnum + 1
    /\ e.x = g.bbox[1] /\ e.width = g.bbox[3] - g.bbox[1]
    /\ e.height = g.bbox[4] - g.bbox[2] /\ e.y = h - g.bbox[4]

\* C2: entry i of char_map describes the character at offset i of full_text: an
\* is_newline entry sits on a newline of a block separator, an is_space entry on an
\* inserted space, and an unflagged entry is the box of a glyph of the block that
\* wrote the offset whose character is the character at the offset
PairingInvariant ==
    \A i \in 1..Len(char_map) :
        /\ i <= Len(full_text)
        /\ char_map[i].is_newline =>
              /\ full_text[i] = "\n"
              /\ \E k \in Contributing : i \in {log[k].stop - 1, log[k].stop}
        /\ char_map[i].is_space =>
              /\ full_text[i] = " "
              /\ \E k \in Contributing : i > log[k].start /\ i <= log[k].stop - 2
        /\ (~char_map[i].is_newline /\ ~char_map[i].is_space) =>
              \E k \in Contributing :
                  /\ i > log[k].start /\ i <= log[k].stop - 2
                  /\ \E n \in 1..Len(BlockGlyphs(log[k].block)) :
                        LET g == BlockGlyphs(log[k].block)[n]
                        IN /\ g.c = full_text[i]
                           /\ IsBoxOf(char_map[i], g, log[k].page_num,
                                      log[k].page.page_height)

PairingWitness ==
    /\ pc = "done"
    /\ \E k \in 1..Len(log) : TrimmedGlyph(k)
    /\ \E i \in 1..Len(char_map) :
          /\ char_map[i].is_space
          /\ i < Len(char_map) /\ ~char_map[i + 1].is_newline

\* C3: the text a contributing block wrote ends in a non-whitespace character and is
\* followed by exactly two newline characters, whose two entries are the only
\* is_newline entries the block wrote; the next contributing block's text starts
\* right after them
SeparatorInvariant ==
    /\ \A k \in Contributing :
          /\ log[k].stop - log[k].start >= 3
          /\ log[k].stop <= Len(full_text) /\ log[k].stop <= Len(char_map)
          /\ full_text[log[k].stop - 1] = "\n" /\ full_text[log[k].stop] = "\n"
          /\ char_map[log[k].stop - 1].is_newline /\ char_map[log[k].stop].is_newline
          /\ ~IsSpace(full_text[log[k].stop - 2])
          /\ \A i \in (log[k].start + 1)..(log[k].stop - 2) : ~char_map[i].is_newline
    /\ \A k1, k2 \in Contributing :
          (k1 < k2 /\ \A m \in Contributing : ~(k1 < m /\ m < k2))
              => log[k2].start = log[k1].stop
    /\ Cardinality({i \in 1..Len(char_map) : char_map[i].is_newline})
          = 2 * Cardinality(Contributing)

SeparatorWitness ==
    /\ pc = "done"
    /\ \E k1, k2 \in Contributing :
          /\ k1 < k2 /\ log[k1].page_num < log[k2].page_num
          /\ full_text[log[k2].start + 1] = "\n"
          /\ ~char_map[log[k2].start + 1].is_newline

\* the rectangle lies entirely above the header line or entirely below the footer line
InBand(bbox, height) == 100 * bbox[4] < 5 * height \/ 100 * bbox[2] > 95 * height

\* the centre of the rectangle lies inside rect
CentreInside(bbox, rect) ==
    /\ 2 * rect[1] <= bbox[1] + bbox[3] /\ bbox[1] + bbox[3] < 2 * rect[3]
    /\ 2 * rect[2] <= bbox[2] + bbox[4] /\ bbox[2] + bbox[4] < 2 * rect[4]

CentreInRegion(k) ==
    \/ \E t \in 1..Len(log[k].page.table_bboxes) :
          CentreInside(log[k].block.bbox, log[k].page.table_bboxes[t])
    \/ \E i \in 1..Len(log[k].page.image_bboxes) :
          CentreInside(log[k].block.bbox, log[k].page.image_bboxes[i])

WroteNothing(k) == log[k].stop = log[k].start /\ log[k].cstop = log[k].cstart

\* C9: a block entirely above the header line or entirely below the footer line is
\* skipped and writes nothing, so a block within the top 4% of the page writes
\* nothing; a block that touches or straddles either line is not skipped unless its
\* centre lies in a table or image
BandInvariant ==
    \A k \in 1..Len(log) :
        LET bbox == log[k].block.bbox
            height == log[k].page.page_height
        IN /\ InBand(bbox, height) => (log[k].filtered /\ WroteNothing(k))
           /\ 100 * bbox[4] <= 4 * height => WroteNothing(k)
           /\ (~InBand(bbox, height) /\ ~CentreInRegion(k)) => ~log[k].filtered

BandWitness ==
    /\ \E k \in 1..Len(log) :
          /\ 100 * log[k].block.bbox[4] <= 4 * log[k].page.page_height
          /\ log[k].filtered /\ BlockGlyphs(log[k].block) # <<>>
    /\ \E k \in 1..Len(log) :
          /\ 100 * log[k].block.bbox[4] = 5 * log[k].page.page_height
          /\ ~log[k].filtered /\ ~WroteNothing(k)

\* C10: outside the header and footer bands a block is skipped exactly when the centre
\* of its rectangle lies inside a table or image rectangle; a skipped block writes
\* nothing and a kept block writes every non-whitespace glyph it has
CentroidInvariant ==
    \A k \in 1..Len(log) :
        ~InBand(log[k].block.bbox, log[k].page.page_height) =>
            /\ log[k].filtered <=> CentreInRegion(k)
            /\ log[k].filtered => WroteNothing(k)
            /\ ~log[k].filtered =>
                  Len(NonWs(SubSeq(full_text, log[k].start + 1, log[k].stop)))
                      = Len(SelectSeq(BlockGlyphs(log[k].block), LAMBDA g : ~IsSpace(g.c)))

CentroidWitness ==
    /\ \E k \in 1..Len(log) :
          /\ \E t \in 1..Len(log[k].page.table_bboxes) :
                /\ CentreInside(log[k].block.bbox, log[k].page.table_bboxes[t])
                /\ log[k].block.bbox[3] > log[k].page.table_bboxes[t][3]
          /\ log[k].filtered /\ WroteNothing(k)
    /\ \E k \in 1..Len(log) :
          /\ \E t \in 1..Len(log[k].page.table_bboxes) :
                Overlaps(log[k].block.bbox, log[k].page.table_bboxes[t])
          /\ ~CentreInRegion(k)
          /\ ~log[k].filtered /\ ~WroteNothing(k)

-----------------------------------------------------------------------------
(* Properties of align *)

Last(seq) == seq[Len(seq)]

Matched(n) == enriched_sentences[n].bboxes # <<>>

\* the offset in char_map of an entry of char_map (the entries of MapOf differ pairwise)
OffsetOf(entry) == CHOOSE i \in 0..(Len(char_map) - 1) : char_map[i + 1] = entry

\* match_start and match_end of a matched sentence, read off its bboxes
StartOf(n) == OffsetOf(enriched_sentences[n].bboxes[1])
EndOf(n) == OffsetOf(Last(enriched_sentences[n].bboxes)) + 1

OrderedMatches ==
    \A n, m \in 1..Len(enriched_sentences) :
        (n < m /\ Matched(n) /\ Matched(m)) => StartOf(m) >= EndOf(n)

\* C4: within one align call current_idx never decreases, and every matched sentence
\* starts at or after the end of every matched sentence before it
CursorMonotonicity ==
    /\ [][call' = call => current_idx' >= current_idx]_vars
    /\ []OrderedMatches

\* two successive sentences with the same text, matched at two occurrences
CursorWitness ==
    /\ apc = "returned" /\ Len(enriched_sentences) = 2
    /\ enriched_sentences[1].text = enriched_sentences[2].text
    /\ Matched(1) /\ Matched(2)
    /\ StartOf(2) >= EndOf(1)
    /\ current_idx = EndOf(2)

\* C5: the bboxes of a matched sentence are a contiguous slice
\* char_map[a:e] of e - a entries, the characters of full_text[a:e] without whitespace
\* are the sentence text without whitespace, and the slice is
\* char_map[match_start:match_end]
ReconstructionInvariant ==
    /\ \A n \in 1..Len(enriched_sentences) :
          Matched(n) =>
              \E a, e \in 0..Len(full_text) :
                  /\ a < e
                  /\ enriched_sentences[n].bboxes = SubSeq(char_map, a + 1, e)
                  /\ Len(enriched_sentences[n].bboxes) = e - a
                  /\ NonWs(SubSeq(full_text, a + 1, e)) = NonWs(enriched_sentences[n].text)
    /\ (apc = "loop" /\ enriched_sentences # <<>> /\ Matched(Len(enriched_sentences))) =>
          /\ 0 <= match_start /\ match_start < match_end /\ match_end <= Len(char_map)
          /\ Last(enriched_sentences).bboxes = SubSeq(char_map, match_start + 1, match_end)

\* a sentence matched across whitespace of full_text that its own text lacks
ReconstructionWitness ==
    \E n \in 1..Len(enriched_sentences) :
        /\ Matched(n)
        /\ Len(enriched_sentences[n].bboxes) > Len(enriched_sentences[n].text)
        /\ Len(enriched_sentences[n].text) >= 2

\* seq begins with key
IsPrefix(key, seq) == Len(key) <= Len(seq) /\ SubSeq(seq, 1, Len(key)) = key

\* the key can be read from some offset p >= from, skipping whitespace
Located(key, from) ==
    \E p \in from..(Len(full_text) - 1) :
        IsPrefix(key, NonWs(SubSeq(full_text, p + 1, Len(full_text))))

\* C6: the sentence just processed has empty bboxes exactly when its clean key is
\* empty or cannot be located at or after the cursor its scan started from
LocateInvariant ==
    (apc \in {"loop", "returned"} /\ enriched_sentences # <<>>) =>
        LET key == NonWs(Last(enriched_sentences).text)
        IN (Last(enriched_sentences).bboxes = <<>>)
               <=> (key = <<>> \/ ~Located(key, scan_from))

\* a sentence matched after a restart, following one whose scan ran into the end of
\* the text during a partial match
LocateWitness ==
    /\ apc = "loop" /\ Len(enriched_sentences) = 2
    /\ ~Matched(1) /\ NonWs(enriched_sentences[1].text) # <<>>
    /\ Matched(2) /\ restarts > 0

\* C7: a sentence with empty bboxes leaves current_idx where its scan started, and the
\* scan of the next sentence starts there
CursorKept ==
    /\ [](( apc = "loop" /\ enriched_sentences # <<>>
            /\ ~Matched(Len(enriched_sentences)) ) => current_idx = scan_from)
    /\ [][( apc = "loop" /\ apc' = "scan" /\ enriched_sentences # <<>>
            /\ ~Matched(Len(enriched_sentences)) ) => temp_idx' = scan_from]_vars

\* a scan that restarted, read on and failed, after a matched sentence
CursorKeptWitness ==
    /\ apc = "loop" /\ Len(enriched_sentences) = 2
    /\ Matched(1) /\ ~Matched(2) /\ NonWs(enriched_sentences[2].text) # <<>>
    /\ restarts > 0 /\ temp_idx > scan_from + 1
    /\ scan_from > 0 /\ current_idx = scan_from

\* C8: the second call, given the list the first call returned, returns the same list
Idempotence ==
    (apc = "returned" /\ call = 2) => enriched_sentences = first_result

IdempotenceWitness ==
    /\ apc = "returned" /\ call = 2 /\ Len(enriched_sentences) = 2
    /\ Matched(1) /\ Matched(2) /\ StartOf(1) > 0
    /\ enriched_sentences = first_result

-----------------------------------------------------------------------------
(* Properties of extract: exits *)

\* C11: whenever extract has been left, by its return or by an exception, the
\* document handle is closed
HandleClosedOnExit == pc \in {"done", "raised_page", "raised_block"} => ~doc_open

\* C12: no exception raised while one block is processed ends the call
BlockFailureAbsorbed == pc # "raised_block"

\* the align half of C12: the list align returns holds every sentence it was given,
\* in order, each with a bboxes field
EverySentenceReturned ==
    apc = "returned" =>
        /\ Len(enriched_sentences) = Len(sentences)
        /\ \A n \in 1..Len(sentences) :
              /\ enriched_sentences[n].id = sentences[n].id
              /\ enriched_sentences[n].text = sentences[n].text
              /\ "bboxes" \in DOMAIN enriched_sentences[n]

-----------------------------------------------------------------------------
(* Properties of extract: reading order *)

\* the row bucket and the left edge of a block
Row(block) == block.bbox[2] \div 10
LeftX(block) == block.bbox[1]

\* block a comes before block b in the order (row bucket, left x)
KeyBefore(a, b) == Row(a) < Row(b) \/ (Row(a) = Row(b) /\ LeftX(a) < LeftX(b))
SameKey(a, b) == Row(a) = Row(b) /\ LeftX(a) = LeftX(b)

\* the page text_blocks was read from
CurPage == IF pc \in {"blocks", "raised_block"} THEN page_num ELSE page_num - 1

\* the visited blocks of page index p that passed the filter, in the order visited
Survivors(p) ==
    LET on == SelectSeq(log, LAMBDA e : e.page_num = p /\ ~e.filtered)
    IN [i \in 1..Len(on) |-> on[i].block]

\* the blocks of text_blocks that pass the filter, in the order of the page source
SourceSurvivors ==
    SelectSeq(text_blocks,
              LAMBDA b : ~_is_block_filtered(b.bbox, page.header_height, page.footer_y,
                                             page.table_bboxes, page.image_bboxes))

\* C13: on one page a surviving block with the smaller key (row bucket, then left x) is
\* visited first and all its output lies before the output of the other; surviving
\* blocks with equal keys come out in the order the page source lists them
OrderInvariant ==
    /\ \A k, m \in 1..Len(log) :
          (/\ log[k].page_num = log[m].page_num
           /\ ~log[k].filtered /\ ~log[m].filtered
           /\ KeyBefore(log[k].block, log[m].block))
          => k < m /\ log[k].stop <= log[m].start /\ log[k].cstop <= log[m].cstart
    /\ \A b \in {text_blocks[i] : i \in 1..Len(text_blocks)} :
          LET out == SelectSeq(Survivors(CurPage), LAMBDA c : SameKey(c, b))
              src == SelectSeq(SourceSurvivors, LAMBDA c : SameKey(c, b))
          IN /\ Len(out) <= Len(src)
             /\ out = SubSeq(src, 1, Len(out))
             /\ pc \in {"pages", "done", "raised_page"} => out = src

\* two blocks of one page both wrote text, in the order opposite to the page source
OrderWitness ==
    /\ pc = "done" /\ Len(log) = 2 /\ Len(text_blocks) = 2
    /\ log[1].page_num = log[2].page_num
    /\ log[1].stop > log[1].start /\ log[2].stop > log[2].start
    /\ Row(log[1].block) = Row(log[2].block)
    /\ log[1].block = text_blocks[2] /\ log[2].block = text_blocks[1]
    /\ log[1].block # log[2].block

\* the top edge of a block and the distance between two tops
Top(block) == block.bbox[2]
TopDistance(a, b) == IF Top(a) >= Top(b) THEN Top(a) - Top(b) ELSE Top(b) - Top(a)

\* two visited blocks of one page that both passed the filter
SurvivingPair(k, m) ==
    /\ k \in 1..Len(log) /\ m \in 1..Len(log) /\ k # m
    /\ log[k].page_num = log[m].page_num
    /\ ~log[k].filtered /\ ~log[m].filtered

\* C14 as stated: two surviving blocks of one page whose tops differ by less than 10
\* are emitted in ascending order of their left x
JitterTolerance ==
    \A k, m \in 1..Len(log) :
        (/\ SurvivingPair(k, m)
         /\ TopDistance(log[k].block, log[m].block) < 10
         /\ LeftX(log[k].block) < LeftX(log[m].block))
        => k < m

\* C14: two surviving blocks of one page whose tops differ by less than 10 are emitted
\* in ascending order of their left x when both tops lie in the same band
\* [10 r, 10 r + 10), and otherwise the block of the upper band first, whatever
\* their left x
RowBandOrder ==
    \A k, m \in 1..Len(log) :
        (SurvivingPair(k, m) /\ TopDistance(log[k].block, log[m].block) < 10)
        => LET rk == CHOOSE r \in 0..Top(log[k].block) :
                        10 * r <= Top(log[k].block) /\ Top(log[k].block) < 10 * r + 10
               rm == CHOOSE r \in 0..Top(log[m].block) :
                        10 * r <= Top(log[m].block) /\ Top(log[m].block) < 10 * r + 10
           IN /\ (rk = rm /\ LeftX(log[k].block) < LeftX(log[m].block)) => k < m
              /\ rk < rm => k < m

\* two surviving blocks with tops 4 apart in different bands: the one further right
\* was emitted first, and both wrote text
RowBandWitness ==
    \E k, m \in 1..Len(log) :
        /\ SurvivingPair(k, m) /\ k < m
        /\ TopDistance(log[k].block, log[m].block) < 10
        /\ LeftX(log[k].block) > LeftX(log[m].block)
        /\ log[k].stop > log[k].start /\ log[m].stop > log[m].start

-----------------------------------------------------------------------------
(* Properties of extract: the order of filtering and sorting *)

RECURSIVE InsertByKey(_, _)
\* b put into a list ordered by key, behind every block whose key is not larger
InsertByKey(ordered, b) ==
    IF ordered = <<>> THEN <<b>>
    ELSE IF KeyBefore(b, Head(ordered)) THEN <<b>> \o ordered
    ELSE <<Head(ordered)>> \o InsertByKey(Tail(ordered), b)

RECURSIVE ReferenceSort(_)
\* the stable ascending order of a list of blocks, by inserting them in source order
ReferenceSort(blocks) ==
    IF blocks = <<>> THEN <<>>
    ELSE InsertByKey(ReferenceSort(SubSeq(blocks, 1, Len(blocks) - 1)), blocks[Len(blocks)])

RECURSIVE Assemble(_, _, _)
\* the blocks assembled one after the other onto text and cmap
Assemble(blocks, text, cmap) ==
    IF blocks = <<>> THEN [full_text |-> text, char_map |-> cmap]
    ELSE LET pb == _process_block(Head(blocks), CurPage, page.page_height, page.page_width)
             fin == _finalize_block(pb.block_text, pb.block_chars, text, cmap)
         IN Assemble(Tail(blocks), fin.full_text, fin.char_map)

\* the visited blocks of the page text_blocks was read from
PageEntries == {k \in 1..Len(log) : log[k].page_num = CurPage}

\* the lengths of full_text and char_map when that page was begun
PageStart ==
    IF PageEntries = {} THEN Len(full_text)
    ELSE log[CHOOSE k \in PageEntries : \A m \in PageEntries : k <= m].start
PageCStart ==
    IF PageEntries = {} THEN Len(char_map)
    ELSE log[CHOOSE k \in PageEntries : \A m \in PageEntries : k <= m].cstart

\* C15: filtering the text blocks of a page first, then sorting the survivors, then
\* assembling them gives the blocks the loop assembles, in the same order, and once
\* the page is finished the same full_text and char_map
PipelineEquivalence ==
    LET ref == ReferenceSort(SourceSurvivors)
        out == Survivors(CurPage)
    IN /\ Len(out) <= Len(ref)
       /\ out = SubSeq(ref, 1, Len(out))
       /\ (pc \in {"pages", "done", "raised_page"} /\ CurPage >= 0) =>
             /\ out = ref
             /\ Assemble(ref, SubSeq(full_text, 1, PageStart), SubSeq(char_map, 1, PageCStart))
                   = [full_text |-> full_text, char_map |-> char_map]

\* a finished page of three text blocks: the loop skipped the second block it visited
\* and assembled the other two, which the page source lists in the opposite order
PipelineWitness ==
    /\ pc = "done" /\ Len(text_blocks) = 3 /\ Len(log) = 3
    /\ ~log[1].filtered /\ log[2].filtered /\ ~log[3].filtered
    /\ log[1].stop > log[1].start /\ log[3].stop > log[3].start
    /\ \E i, j \in 1..3 : i < j /\ text_blocks[i] = log[3].block /\ text_blocks[j] = log[1].block
    /\ log[1].block # log[3].block

-----------------------------------------------------------------------------
(* Properties of extract: what one block appends *)

\* the offsets of the non-whitespace characters of a text
Inked(text) == {i \in 1..Len(text) : ~IsSpace(text[i])}

\* the length of a text without its trailing whitespace
KeptLength(text) == CHOOSE n \in Inked(text) : \A i \in Inked(text) : i <= n

\* the visited blocks cover full_text and char_map without gap or overlap
LogCovers ==
    /\ log = <<>> => full_text = <<>> /\ char_map = <<>>
    /\ log # <<>> =>
          /\ log[1].start = 0 /\ log[1].cstart = 0
          /\ log[Len(log)].stop = Len(full_text) /\ log[Len(log)].cstop = Len(char_map)
    /\ \A k \in 1..(Len(log) - 1) :
          log[k + 1].start = log[k].stop /\ log[k + 1].cstart = log[k].cstop

\* C16: a block that passed the filter and whose text has a non-whitespace character
\* put into full_text exactly its text without the trailing whitespace and two
\* newlines, and into char_map exactly the entries paired with the kept characters
\* and two newline entries; a block whose text is empty or all whitespace put nothing;
\* and what the blocks before put there still stands, whatever came after
FinalizeInvariant ==
    /\ LogCovers
    /\ \A k \in 1..Len(log) :
          LET e == log[k]
              text == SubSeq(full_text, e.start + 1, e.stop)
              boxes == SubSeq(char_map, e.cstart + 1, e.cstop)
          IN IF ~e.filtered /\ Inked(e.block_text) # {}
             THEN LET n == KeptLength(e.block_text)
                  IN /\ text = SubSeq(e.block_text, 1, n) \o <<"\n", "\n">>
                     /\ Len(boxes) = n + 2
                     /\ SubSeq(boxes, 1, n) = SubSeq(e.block_chars, 1, n)
                     /\ boxes[n + 1].is_newline /\ boxes[n + 2].is_newline
             ELSE text = <<>> /\ boxes = <<>>

\* one block of the document was all whitespace and put nothing, another lost its
\* trailing whitespace and was followed by a later block
FinalizeWitness ==
    /\ pc = "done" /\ Len(log) = 2
    /\ \E k \in 1..2 :
          /\ ~log[k].filtered /\ log[k].block_text # <<>> /\ Inked(log[k].block_text) = {}
    /\ \E k \in 1..2 :
          /\ ~log[k].filtered /\ Inked(log[k].block_text) # {}
          /\ KeptLength(log[k].block_text) < Len(log[k].block_text)

-----------------------------------------------------------------------------
(* Properties of extract: the space after a line *)

RECURSIVE Spaced(_, _, _, _, _)
\* what the lines of a block give when a space follows every non-empty line whose last
\* character is not in ws: per character its value, whether it is an inserted space,
\* and the entry of the character itself or, for an inserted space, of the last
\* character of the line
Spaced(lines, pnum, page_height, page_width, ws) ==
    IF lines = <<>> THEN <<>>
    ELSE LET pl == _process_line(Head(lines), pnum, page_height, page_width)
             n == Len(pl.line_text)
             own == [i \in 1..n |-> [c |-> pl.line_text[i], inserted |-> FALSE,
                                     box |-> pl.line_chars[i]]]
             gap == IF n = 0 \/ pl.line_text[n] \in ws THEN <<>>
                    ELSE <<[c |-> " ", inserted |-> TRUE, box |-> pl.line_chars[n]]>>
         IN own \o gap \o Spaced(Tail(lines), pnum, page_height, page_width, ws)

\* the text and entries _process_block returned for visited block k are those of want
SpacedAs(k, want) ==
    /\ Len(log[k].block_text) = Len(want)
    /\ Len(log[k].block_chars) = Len(want)
    /\ \A i \in 1..Len(want) :
          /\ log[k].block_text[i] = want[i].c
          /\ IF want[i].inserted
             THEN /\ log[k].block_chars[i].is_space
                  /\ log[k].block_chars[i].x = want[i].box.x + want[i].box.width
                  /\ log[k].block_chars[i].y = want[i].box.y
                  /\ log[k].block_chars[i].height = want[i].box.height
             ELSE log[k].block_chars[i] = want[i].box /\ ~want[i].box.is_space

\* C17: in every assembled block each non-empty line is followed by one inserted space,
\* with an entry flagged is_space at x = last.x + last.width and the y and height of
\* the line's last character, exactly when the line does not end in a whitespace
\* character; empty lines add nothing
SpaceAfterLine ==
    \A k \in 1..Len(log) :
        ~log[k].filtered =>
            SpacedAs(k, Spaced(log[k].block.lines, log[k].page_num, log[k].page.page_height,
                               log[k].page.page_width, {" ", "\n", "\t", "\r"}))

\* what the code does instead: the space is left out only after a line that ends in a
\* space, a newline or a tab
SpaceAfterLineUnlessSpaceNlTab ==
    \A k \in 1..Len(log) :
        ~log[k].filtered =>
            SpacedAs(k, Spaced(log[k].block.lines, log[k].page_num, log[k].page.page_height,
                               log[k].page.page_width, {" ", "\n", "\t"}))

-----------------------------------------------------------------------------
(* Properties of extract: the inserted entries *)

\* entry i of char_map was inserted by the assembler, not read from a glyph
Synthetic(i) == char_map[i].is_space \/ char_map[i].is_newline

\* the entry of the last real glyph before the inserted entry i
GlyphBefore(i) ==
    char_map[CHOOSE j \in 1..(i - 1) :
                 /\ ~Synthetic(j)
                 /\ \A m \in (j + 1)..(i - 1) : Synthetic(m)]

\* C18: every inserted entry of char_map, space or newline, has width zero and lies at
\* the trailing edge of the real glyph before it: x = glyph.x + glyph.width, with the
\* glyph's y and height
SyntheticAtTrailingEdge ==
    \A i \in 1..Len(char_map) :
        Synthetic(i) =>
            /\ \E j \in 1..(i - 1) : ~Synthetic(j)
            /\ char_map[i].width = 0
            /\ char_map[i].x = GlyphBefore(i).x + GlyphBefore(i).width
            /\ char_map[i].y = GlyphBefore(i).y
            /\ char_map[i].height = GlyphBefore(i).height

\* what the code does instead: an inserted space lies at the trailing edge of the glyph
\* before it and has that glyph's width; an inserted newline has width zero and lies at
\* that glyph's leading edge
SyntheticAsBuilt ==
    \A i \in 1..Len(char_map) :
        Synthetic(i) =>
            /\ \E j \in 1..(i - 1) : ~Synthetic(j)
            /\ char_map[i].y = GlyphBefore(i).y
            /\ char_map[i].height = GlyphBefore(i).height
            /\ char_map[i].is_space =>
                  /\ char_map[i].width = GlyphBefore(i).width
                  /\ char_map[i].x = GlyphBefore(i).x + GlyphBefore(i).width
            /\ char_map[i].is_newline =>
                  /\ char_map[i].width = 0
                  /\ char_map[i].x = GlyphBefore(i).x

-----------------------------------------------------------------------------
(* Properties of align: the scan as a leftmost search *)

\* offset p holds a non-whitespace character and the key can be read from it,
\* skipping whitespace
ReadsFrom(key, p) ==
    /\ ~IsSpace(full_text[p + 1])
    /\ IsPrefix(key, NonWs(SubSeq(full_text, p + 1, Len(full_text))))

\* the offsets at or after from at which the key can be read
Occurrences(key, from) == {p \in from..(Len(full_text) - 1) : ReadsFrom(key, p)}

\* the offset just after the last character of the key read from p
EndOfReading(key, p) ==
    CHOOSE e \in (p + 1)..Len(full_text) :
        /\ NonWs(SubSeq(full_text, p + 1, e)) = key
        /\ ~IsSpace(full_text[e])

\* C19: for the sentence just processed, with a non-empty clean key, the scan reports
\* a match exactly when the key can be read somewhere at or after the cursor the scan
\* started from; then match_start is the smallest such offset, match_end the offset
\* just after the last character read from there, and bboxes the entries between
LeftmostSearch ==
    (apc = "loop" /\ enriched_sentences # <<>> /\ NonWs(Last(enriched_sentences).text) # <<>>)
    => LET key == NonWs(Last(enriched_sentences).text)
           occ == Occurrences(key, scan_from)
       IN IF occ = {}
          THEN Last(enriched_sentences).bboxes = <<>> /\ current_idx = scan_from
          ELSE LET p == CHOOSE q \in occ : \A r \in occ : q <= r
               IN /\ match_start = p
                  /\ match_end = EndOfReading(key, p)
                  /\ Last(enriched_sentences).bboxes = SubSeq(char_map, p + 1, match_end)
                  /\ current_idx = match_end

\* after a matched sentence, the scan of the next one began a match, gave it up,
\* restarted one offset further and matched there
LeftmostWitness ==
    /\ apc = "loop" /\ Len(enriched_sentences) = 2
    /\ Matched(1) /\ Matched(2)
    /\ scan_from > 0 /\ restarts > 0
    /\ match_start > scan_from

-----------------------------------------------------------------------------
(* Properties of extract: the page of an entry *)

\* C20: along char_map the page is at least 1 and never decreases; the pages are
\* visited in document order, and every entry a block of page index k put into
\* char_map, glyph, inserted space or inserted newline, carries page k + 1
PageInvariant ==
    /\ \A i \in 1..Len(char_map) : char_map[i].page >= 1
    /\ \A i, j \in 1..Len(char_map) : i < j => char_map[i].page <= char_map[j].page
    /\ \A k, m \in 1..Len(log) : k < m => log[k].page_num <= log[m].page_num
    /\ \A k \in 1..Len(log) :
          /\ log[k].page_num >= 0 /\ log[k].page_num <= page_num
          /\ \A i \in (log[k].cstart + 1)..log[k].cstop :
                char_map[i].page = log[k].page_num + 1

\* the first two pages of the document both put entries into char_map, the second an
\* inserted space and the newlines of its separator
PageWitness ==
    /\ pc = "done"
    /\ \E i \in 1..Len(char_map) : char_map[i].page = 1 /\ ~Synthetic(i)
    /\ \E i \in 1..Len(char_map) : char_map[i].page = 2 /\ char_map[i].is_space
    /\ \E i \in 1..Len(char_map) : char_map[i].page = 2 /\ char_map[i].is_newline

-----------------------------------------------------------------------------
(* Properties of align: termination *)

\* the offset the scan currently tries as the start of the match: match_start while a
\* match is under way, otherwise the read position
CandidateStart == IF match_start # -1 THEN match_start ELSE temp_idx

\* a measure of what the scan has left: the candidate starts still to try, then the
\* characters still to read
ScanMeasure ==
    (Len(full_text) + 1) * (Len(full_text) - CandidateStart) + (Len(full_text) - temp_idx)

\* C21: while a sentence is scanned it has seen at most len(full_text) restarts; every
\* iteration of the scan lowers a measure that is never negative, a restart among them
\* although it moves the read position back, because it raises the candidate start;
\* and every call of align returns
ScanTerminates ==
    /\ [](apc = "scan" => /\ restarts <= Len(full_text)
                          /\ CandidateStart <= Len(full_text)
                          /\ ScanMeasure >= 0)
    /\ [][(apc = "scan" /\ apc' = "scan") =>
             /\ ScanMeasure' < ScanMeasure
             /\ restarts' # restarts =>
                   /\ temp_idx' <= temp_idx
                   /\ CandidateStart' > CandidateStart]_vars
    /\ (apc \in {"loop", "scan"}) ~> (apc = "returned")

\* a scan that restarted twice, the second time from further on, and moved the read
\* position back by more than one offset
ScanTerminatesWitness ==
    /\ apc = "scan" /\ restarts = 2
    /\ match_start = -1 /\ temp_idx > scan_from + 1
    /\ temp_idx < Len(full_text)

-----------------------------------------------------------------------------
(* Properties of align: sentences cut from the text *)

\* the offsets at which a piece of full_text equal to text can end when it starts at
\* or after from
PieceEnds(text, from) ==
    {b \in from..Len(full_text) :
        \E a \in from..b : SubSeq(full_text, a + 1, b) = text}

RECURSIVE EarliestEnd(_)
\* the smallest offset at which the n-th processed sentence can end when the first n
\* sentences are cut from full_text left to right without overlap; -1 when they cannot
\* be cut so, or when one of them has no non-whitespace character
EarliestEnd(n) ==
    IF n = 0 THEN 0
    ELSE LET before == EarliestEnd(n - 1)
             text == enriched_sentences[n].text
             ends == IF before = -1 THEN {} ELSE PieceEnds(text, before)
         IN IF NonWs(text) = <<>> \/ ends = {} THEN -1
            ELSE CHOOSE b \in ends : \A c \in ends : b <= c

\* C22: when the sentences processed so far are pieces of full_text cut left to right
\* without overlap, each with a non-whitespace character, every one of them has
\* non-empty bboxes and the cursor is not beyond the earliest end the last piece can
\* have, hence not beyond the start of any piece a next sentence can be
PiecesAllMatched ==
    (apc \in {"loop", "returned"} /\ enriched_sentences # <<>>
       /\ EarliestEnd(Len(enriched_sentences)) # -1)
    => /\ \A n \in 1..Len(enriched_sentences) : Matched(n)
       /\ current_idx <= EarliestEnd(Len(enriched_sentences))

\* two sentences cut from the text: the first was matched at an occurrence that ends
\* before its own piece can, the second after it
PiecesWitness ==
    /\ apc = "returned" /\ Len(enriched_sentences) = 2
    /\ EarliestEnd(2) # -1
    /\ Matched(1) /\ Matched(2)
    /\ EndOf(1) < EarliestEnd(1)
    /\ StartOf(2) >= EndOf(1)

-----------------------------------------------------------------------------
(* Properties of align: the two copies of the loop *)

\* the sentences processed so far, as they were given
Given ==
    [n \in 1..Len(enriched_sentences) |->
        [id |-> enriched_sentences[n].id, text |-> enriched_sentences[n].text]]

\* C23: after every sentence, the loop of upload_pdf run on the sentences processed
\* so far, the same full_text and the same char_map holds the cursor
\* _map_sentences_to_bboxes holds and has given every sentence the same bboxes
InlineEquivalence ==
    apc \in {"loop", "returned"} =>
        LET inline == upload_pdf_align(Given, full_text, char_map)
        IN /\ inline.current_idx = current_idx
           /\ inline.enriched_sentences = enriched_sentences

\* two sentences were processed: the first matched across whitespace of the text and
\* moved the cursor, the second has a key that is not found after it
InlineWitness ==
    /\ apc = "returned" /\ Len(enriched_sentences) = 2
    /\ Matched(1)
    /\ Len(enriched_sentences[1].bboxes) > Len(NonWs(enriched_sentences[1].text))
    /\ ~Matched(2) /\ NonWs(enriched_sentences[2].text) # <<>>
    /\ current_idx > 0
    /\ upload_pdf_align(Given, full_text, char_map).current_idx = current_idx

====
